---- MODULE Spec2Model ----
(***************************************************************************)
(* A model of github3/pulls.py: the PullRequest object, its construction   *)
(* from a JSON payload, its mutating calls (update, close, reopen, merge), *)
(* the is_merged probe and the four iter_* methods.                        *)
(*                                                                         *)
(* Text is modelled at the granularity the code works at:                  *)
(*   - a URL is a sequence of path segments, the first being scheme+host;  *)
(*     a segment is a sequence of text atoms, so that a name such as       *)
(*     "pulls-tracker" is <<"pulls", "-tracker">> and str.replace, which   *)
(*     works on text and not on segments, sees the "pulls" inside it;      *)
(*   - a nullable value is None (<<>>) or Some(v) (<<v>>).                 *)
(* Every call is one atomic step: the library is synchronous and blocking. *)
(***************************************************************************)
EXTENDS Integers, Sequences, FiniteSets, TLC

VARIABLES
    auth,     \* whether the session carries credentials
    pull,     \* the attributes of the local PullRequest object
    remote,   \* the pull request as the remote API holds it
    last,     \* the last call: its name, arguments, requests, response, result
    iter,     \* the generator returned by the last iter_* call
    source    \* the remote list the iter_* methods page through

vars == <<auth, pull, remote, last, iter, source>>

----------------------------------------------------------------------------
(* Python values *)

None == <<>>

Some(v) == <<v>>

\* dict.get(key): the value, or None when the key is absent
Get(d, k) == IF k \in DOMAIN d THEN d[k] ELSE None

\* dict.get(key, default)
GetDefault(d, k, default) == IF k \in DOMAIN d THEN d[k] ELSE default

\* json.dumps: the text of a JSON object, tagged so that it is not the object
dumps(d) == <<"json", d>>

\* GitHubCore._strptime: None stays None, a timestamp text becomes a datetime
_strptime(s) == IF s = None THEN None ELSE Some(<<"datetime", s[1]>>)

\* users.User built from a user object
User(u) == [login |-> Get(u, "login")]

----------------------------------------------------------------------------
(* URLs *)

Digits == {"1", "7"}

Host == <<"https://api.github.com">>

\* str.replace(old, new): every occurrence in the text is replaced
replace(s, old, new) ==
    [i \in DOMAIN s |-> [j \in DOMAIN s[i] |-> IF s[i][j] = old THEN new ELSE s[i][j]]]

\* '/'.join([url, suffix])  and  url + '/' + suffix
join(url, suffix) == Append(url, <<suffix>>)

\* GitHubCore._build_url(*parts, base_url=url): the parts joined with '/'
_build_url(parts, base_url) ==
    IF parts = <<>> THEN base_url ELSE join(base_url, parts[1])

\* The dictionary of links (lines 159-166)
Links(_api, html_url) ==
    [self            |-> _api,
     comments        |-> join(replace(_api, "pulls", "issues"), "comments"),
     issue           |-> replace(_api, "pulls", "issues"),
     html            |-> html_url,
     review_comments |-> join(_api, "comments")]

\* The (a, b) splits of the path u[2..] that the pattern
\*   https://[\w\d\-\.\:]+/(\S+)/(\S+)/(?:issues|pull)?/\d+
\* accepts: group 1 is segments 1..a, group 2 segments a+1..b, then the
\* optional word (or an empty segment) and a segment that starts with a digit.
MatchSplits(u) ==
    LET path == Tail(u)
        n    == Len(path)
    IN  IF ~(Len(u) >= 1 /\ Len(u[1]) = 1 /\ u[1][1] \in {"https://api.github.com"})
        THEN {}
        ELSE {ab \in (1..n) \X (1..n) :
                /\ ab[1] < ab[2]
                /\ ab[2] + 2 <= n
                /\ path[ab[2] + 1] \in {<<"issues">>, <<"pull">>, <<>>}
                /\ Len(path[ab[2] + 2]) >= 1
                /\ path[ab[2] + 2][1] \in Digits
                /\ \A i \in 1..ab[2] : path[i] # <<>>}

\* re.match(...).groups(): the greedy split, or None when nothing matches
match_groups(u) ==
    LET S == MatchSplits(u)
    IN  IF S = {} THEN None
        ELSE LET a  == CHOOSE x \in {ab[1] : ab \in S} : \A y \in {ab[1] : ab \in S} : y <= x
                 b  == CHOOSE x \in {ab[2] : ab \in {s \in S : s[1] = a}} :
                          \A y \in {ab[2] : ab \in {s \in S : s[1] = a}} : y <= x
             IN  Some(<<SubSeq(Tail(u), 1, a), SubSeq(Tail(u), a + 1, b)>>)

----------------------------------------------------------------------------
(* PullDestination.__init__ (lines 29-48) *)

PullDestination(dest, direction) ==
    [direction |-> direction,
     ref       |-> Get(dest, "ref"),
     label     |-> Get(dest, "label"),
     user      |-> IF Get(dest, "user") # None THEN Some(User(dest.user[1])) ELSE None,
     sha       |-> Get(dest, "sha"),
     repo      |-> IF Get(dest, "repo") # None
                   THEN <<Get(dest.repo[1].owner, "login"), Get(dest.repo[1], "name")>>
                   ELSE <<"", "">>]

----------------------------------------------------------------------------
(* PullRequest.__init__ (lines 99-211).  A payload is a function from its   *)
(* keys to nullable values; only "url" is always text.                      *)

\* The attributes of the object and the line that assigns each
AssignedAt ==
    [_api |-> 101, base |-> 103, body |-> 105, head |-> 130, html_url |-> 132,
     id |-> 134, labels |-> 137, issue_url |-> 142, links |-> 159,
     merged_at |-> 169, merge_commit_sha |-> 175, merged_by |-> 178,
     number |-> 180, repository |-> 195, state |-> 197, title |-> 199]

Attributes == DOMAIN AssignedAt

NoRaise == [line |-> 0, exc |-> "none"]

\* The first line of __init__ that raises on this payload, and what it raises:
\*   103/130  PullDestination reads dest.get on None
\*   137      iterating None (no labels list), or the name Label, which the
\*            module never imports, once the list has an element
\*   192      re.match on None;  195  .groups() on no match
InitRaises(json) ==
    IF Get(json, "base") = None THEN [line |-> 103, exc |-> "AttributeError"]
    ELSE IF Get(json, "head") = None THEN [line |-> 130, exc |-> "AttributeError"]
    ELSE IF Get(json, "labels") = None THEN [line |-> 137, exc |-> "TypeError"]
    ELSE IF json.labels[1] # <<>> THEN [line |-> 137, exc |-> "NameError"]
    ELSE IF Get(json, "issue_url") = None THEN [line |-> 192, exc |-> "TypeError"]
    ELSE IF match_groups(json.issue_url[1]) = None
         THEN [line |-> 195, exc |-> "AttributeError"]
    ELSE NoRaise

\* The value __init__ gives attribute f
InitValue(json, f) ==
    LET _api == GetDefault(json, "url", <<>>)
    IN  CASE f = "_api"             -> _api
          [] f = "base"             -> PullDestination(json.base[1], "Base")
          [] f = "body"             -> GetDefault(json, "body", Some(""))
          [] f = "head"             -> PullDestination(json.head[1], "Head")
          [] f = "html_url"         -> Get(json, "html_url")
          [] f = "id"               -> Get(json, "id")
          [] f = "labels"           -> <<>>
          [] f = "issue_url"        -> Get(json, "issue_url")
          [] f = "links"            -> Links(_api, Get(json, "html_url"))
          [] f = "merged_at"        -> _strptime(Get(json, "merged_at"))
          [] f = "merge_commit_sha" -> GetDefault(json, "merge_commit_sha", Some(""))
          [] f = "merged_by"        -> IF Get(json, "merged_by") # None
                                       THEN Some(User(json.merged_by[1])) ELSE None
          [] f = "number"           -> Get(json, "number")
          [] f = "repository"       -> match_groups(json.issue_url[1])[1]
          [] f = "state"            -> Get(json, "state")
          [] f = "title"            -> Get(json, "title")

\* __init__ run on an existing object: the assignments above the raising line
\* have happened, the ones from it on have not.
__init__(self, json) ==
    LET r == InitRaises(json)
    IN  [self   |-> [f \in Attributes |->
                        IF r.exc = "none" \/ AssignedAt[f] < r.line
                        THEN InitValue(json, f) ELSE self[f]],
         raised |-> r.exc]

\* PullRequest._update_ (lines 216-217)
_update_(self, json) == __init__(self, json)

----------------------------------------------------------------------------
(* The remote API.  The resource it holds, the payload it answers with and *)
(* what it accepts are the remote system's, as section 4.4 describes them. *)

MergeSha == "abc123"

BaseJson ==
    [ref   |-> Some("master"), label |-> Some("octo:master"), sha |-> Some("aaa"),
     user  |-> Some([login |-> Some("octo")]),
     repo  |-> Some([name |-> Some("hello"), owner |-> [login |-> Some("octo")]])]

\* a head whose fork was deleted: no repo
HeadJson ==
    [ref   |-> Some("topic"), label |-> Some("fork:topic"), sha |-> Some("bbb"),
     user  |-> Some([login |-> Some("fork")]),
     repo  |-> None]

\* What can be wrong with a payload, one thing at a time
Defects ==
    {"ok", "no_base", "no_labels", "labels", "bad_issue_url"}

IssueUrl(url) == [url EXCEPT ![5] = <<"issues">>]

RemoteJson(r, defect) ==
    LET issue == IssueUrl(r.url)
        full ==
          [url              |-> r.url,
           base             |-> Some(BaseJson),
           head             |-> Some(HeadJson),
           body             |-> r.body,
           html_url         |-> Some("https://github.com/pull"),
           id               |-> Some(1),
           labels           |-> Some(IF defect = "labels"
                                     THEN <<[name |-> Some("bug")]>> ELSE <<>>),
           issue_url        |-> Some(IF defect = "bad_issue_url"
                                     THEN [issue EXCEPT ![1] = <<"http://api.github.com">>]
                                     ELSE issue),
           merged_at        |-> IF r.merged THEN Some("2014-01-01T00:00:00Z") ELSE None,
           merge_commit_sha |-> r.sha,
           merged_by        |-> IF r.merged THEN Some([login |-> Some("octocat")]) ELSE None,
           number           |-> Some(1),
           state            |-> r.state,
           title            |-> r.title]
        absent ==
          CASE defect = "no_base"      -> {"base"}
            [] defect = "no_head"      -> {"head"}
            [] defect = "no_labels"    -> {"labels"}
            [] defect = "no_issue_url" -> {"issue_url"}
            [] OTHER                   -> {}
    IN  [k \in DOMAIN full \ absent |-> full[k]]

NoResponse == [status |-> 0, json |-> None]

\* PATCH on the pull: a merged pull is not reopened (422); otherwise the
\* fields sent are applied and the resource comes back (200), or the answer
\* has no content, or the server fails (500).
PATCH(r, url, data, ch) ==
    LET d == data[2]
    IN  IF r.merged /\ Get(d, "state") = Some("open")
        THEN [remote |-> r, resp |-> [status |-> 422, json |-> None]]
        ELSE IF ch.kind = "ok"
        THEN LET r2 == [r EXCEPT !.title = GetDefault(d, "title", @),
                                 !.body  = GetDefault(d, "body", @),
                                 !.state = GetDefault(d, "state", @)]
             IN  [remote |-> r2,
                  resp   |-> [status |-> 200, json |-> Some(RemoteJson(r2, ch.defect))]]
        ELSE IF ch.kind = "empty"
        THEN [remote |-> r, resp |-> [status |-> 200, json |-> None]]
        ELSE [remote |-> r, resp |-> [status |-> 500, json |-> None]]

\* PUT on pull/merge: a merged or closed pull is not merged (405); otherwise
\* the answer says whether the merge happened.
PUT(r, url, data, ch) ==
    IF r.merged \/ r.state # Some("open")
    THEN [remote |-> r, resp |-> [status |-> 405, json |-> None]]
    ELSE IF ch.kind = "ok"
    THEN LET full == [sha |-> Some(MergeSha), merged |-> ch.merged]
             absent == CASE ch.defect = "no_sha" -> {"sha"}
                         [] ch.defect = "no_merged" -> {"merged"}
                         [] OTHER -> {}
         IN  [remote |-> IF ch.merged
                         THEN [r EXCEPT !.merged = TRUE, !.state = Some("closed"),
                                        !.sha = Some(MergeSha)]
                         ELSE r,
              resp   |-> [status |-> 200,
                          json |-> Some([k \in DOMAIN full \ absent |-> full[k]])]]
    ELSE IF ch.kind = "empty"
    THEN [remote |-> r, resp |-> [status |-> 200, json |-> None]]
    ELSE [remote |-> r, resp |-> [status |-> 500, json |-> None]]

\* GET on pull/merge: 204 when merged, 404 when not, or the server fails
GET_merge(r, ch) ==
    IF ch.kind = "error" THEN [status |-> 500, json |-> None]
    ELSE [status |-> IF r.merged THEN 204 ELSE 404, json |-> None]

----------------------------------------------------------------------------
(* The session and transport helpers of GitHubCore *)

\* decorators.requires_auth: the call goes on only with credentials
requires_auth(a) == a

\* GitHubCore._remove_none: the keys whose value is None are deleted
_remove_none(data) == [k \in {x \in DOMAIN data : data[x] # None} |-> data[k]]

\* GitHubCore._boolean(response, true_code, false_code)
_boolean(resp, true_code, false_code) ==
    IF resp.status = true_code THEN "True"
    ELSE IF resp.status # false_code /\ resp.status >= 400 THEN "GitHubError"
    ELSE "False"

\* GitHubCore._json(response, status_code): the decoded body, None when there
\* is none, or the error of an unexpected status
_json(resp, status_code) ==
    LET b == _boolean(resp, status_code, 404)
    IN  [raised |-> b = "GitHubError",
         json   |-> IF b = "True" THEN resp.json ELSE None]

Unauthorized(self, r) ==
    [self |-> self, remote |-> r, reqs |-> <<>>, resp |-> NoResponse,
     result |-> "GitHubError(401)"]

----------------------------------------------------------------------------
(* The calls of PullRequest.  Each gives the object and the remote after the *)
(* call, the requests issued, the response received and the result: "True",  *)
(* "False" or the exception raised.                                          *)

\* update, from the request on (lines 332-338)
send_update(self, r, data, ch) ==
    IF DOMAIN data = {}
    THEN [self |-> self, remote |-> r, reqs |-> <<>>, resp |-> NoResponse,
          result |-> "False"]
    ELSE
    LET req  == [verb |-> "PATCH", url |-> self._api, data |-> Some(dumps(data))]
        sent == PATCH(r, req.url, req.data[1], ch)
        json == _json(sent.resp, 200)
        new  == _update_(self, json.json[1])
    IN  [self   |-> IF ~json.raised /\ json.json # None THEN new.self ELSE self,
         remote |-> sent.remote,
         reqs   |-> <<req>>,
         resp   |-> sent.resp,
         result |-> IF json.raised THEN "GitHubError"
                    ELSE IF json.json = None THEN "False"
                    ELSE IF new.raised # "none" THEN new.raised
                    ELSE "True"]

\* update without its @requires_auth
update_noauth(self, a, r, title, body, state, ch) ==
    send_update(self, r, _remove_none([title |-> title, body |-> body, state |-> state]), ch)

\* update without the call of _remove_none
update_no_remove(self, a, r, title, body, state, ch) ==
    IF ~requires_auth(a) THEN Unauthorized(self, r)
    ELSE send_update(self, r, [title |-> title, body |-> body, state |-> state], ch)

\* update that sends the title as the body
update_body_is_title(self, a, r, title, body, state, ch) ==
    IF ~requires_auth(a) THEN Unauthorized(self, r)
    ELSE send_update(self, r,
                     _remove_none([title |-> title, body |-> title, state |-> state]), ch)

\* update (lines 319-338)
update(self, a, r, title, body, state, ch) ==
    IF ~requires_auth(a) THEN Unauthorized(self, r)
    ELSE send_update(self, r,
                     _remove_none([title |-> title, body |-> body, state |-> state]), ch)

\* close (lines 219-225)
close(self, a, r, ch) ==
    IF ~requires_auth(a) THEN Unauthorized(self, r)
    ELSE update(self, a, r, self.title, self.body, Some("closed"), ch)

\* reopen that leaves the state out
reopen_no_state(self, a, r, ch) ==
    IF ~requires_auth(a) THEN Unauthorized(self, r)
    ELSE update(self, a, r, self.title, self.body, None, ch)

\* reopen (lines 311-317)
reopen(self, a, r, ch) ==
    IF ~requires_auth(a) THEN Unauthorized(self, r)
    ELSE update(self, a, r, self.title, self.body, Some("open"), ch)

\* merge that takes the status of the call for the outcome of the merge
merge_result_by_status(self, json) ==
    IF json = None THEN [self |-> self, result |-> "TypeError"]
    ELSE IF "sha" \notin DOMAIN json[1] THEN [self |-> self, result |-> "KeyError"]
    ELSE [self |-> [self EXCEPT !.merge_commit_sha = json[1].sha], result |-> "True"]

\* merge, from the decoded answer on (lines 302-303): json['sha'] is stored,
\* then json['merged'] returned; None has no items and a missing key raises
merge_result(self, json) ==
    IF json = None THEN [self |-> self, result |-> "TypeError"]
    ELSE IF "sha" \notin DOMAIN json[1] THEN [self |-> self, result |-> "KeyError"]
    ELSE LET stored == [self EXCEPT !.merge_commit_sha = json[1].sha]
         IN  IF "merged" \notin DOMAIN json[1] THEN [self |-> stored, result |-> "KeyError"]
             ELSE [self |-> stored, result |-> IF json[1].merged THEN "True" ELSE "False"]

\* merge (lines 289-303)
merge(self, a, r, commit_message, ch) ==
    IF ~requires_auth(a) THEN Unauthorized(self, r)
    ELSE
    LET data == IF commit_message # ""
                THEN Some(dumps([commit_message |-> commit_message])) ELSE None
        req  == [verb |-> "PUT", url |-> _build_url(<<"merge">>, self._api), data |-> data]
        sent == PUT(r, req.url, req.data, ch)
        json == _json(sent.resp, 200)
        done == merge_result(self, json.json)
    IN  [self   |-> IF json.raised THEN self ELSE done.self,
         remote |-> sent.remote,
         reqs   |-> <<req>>,
         resp   |-> sent.resp,
         result |-> IF json.raised THEN "GitHubError" ELSE done.result]

\* is_merged (lines 233-239)
is_merged(self, r, ch) ==
    LET req  == [verb |-> "GET", url |-> _build_url(<<"merge">>, self._api), data |-> None]
        resp == GET_merge(r, ch)
    IN  [self |-> self, remote |-> r, reqs |-> <<req>>, resp |-> resp,
         result |-> _boolean(resp, 204, 404)]

----------------------------------------------------------------------------
(* The state machine of the mutating calls *)

PullUrl(owner, repo) == <<Host, <<"repos">>, owner, repo, <<"pulls">>, <<"1">>>>

\* an ordinary repository, and one whose owner and name hold the text "pulls"
Urls == {PullUrl(<<"octo">>, <<"hello">>), PullUrl(<<"pulls">>, <<"pulls", "-tracker">>)}

Titles == {None, Some("t1")}

Bodies == {None, Some("")}

States == {None, Some("open"), Some("closed")}

Messages == {"", "release"}

PatchChoices ==
    [kind : {"ok"}, defect : Defects, merged : {FALSE}]
        \cup [kind : {"empty", "error"}, defect : {"ok"}, merged : {FALSE}]

PutChoices ==
    [kind : {"ok"}, defect : {"ok", "no_sha", "no_merged"}, merged : BOOLEAN]
        \cup [kind : {"empty", "error"}, defect : {"ok"}, merged : {FALSE}]

GetChoices == [kind : {"ok", "error"}, defect : {"ok"}, merged : {FALSE}]

NoArgs ==
    [title |-> None, body |-> None, state |-> None, commit_message |-> "",
     number |-> -1, etag |-> None]

Blank == [f \in Attributes |-> None]

NoIter ==
    [status |-> "none", count |-> 0, url |-> <<>>, cls |-> "", etag |-> None,
     next_page |-> 0, buffer |-> <<>>, yielded |-> <<>>, fetched |-> <<>>]

NoSource == [items |-> <<>>, etag |-> ""]

InitRemotes ==
    {[url |-> u, title |-> Some("t0"), body |-> None,
      state |-> sm[1], merged |-> sm[2], sha |-> IF sm[2] THEN Some(MergeSha) ELSE None] :
        u \in Urls,
        sm \in {<<Some("open"), FALSE>>, <<Some("closed"), FALSE>>, <<Some("closed"), TRUE>>}}

\* The object as constructed from the pull's payload (PullRequest(pull, session))
Init ==
    /\ auth \in BOOLEAN
    /\ remote \in InitRemotes
    /\ pull = __init__(Blank, RemoteJson(remote, "ok")).self
    /\ last = [op |-> "init", args |-> NoArgs, reqs |-> <<>>, resp |-> NoResponse,
               result |-> "None"]
    /\ iter = NoIter
    /\ source = NoSource

Returns(op, args, o) ==
    /\ pull' = o.self
    /\ remote' = o.remote
    /\ last' = [op |-> op, args |-> args, reqs |-> o.reqs, resp |-> o.resp,
                result |-> o.result]
    /\ UNCHANGED <<auth, iter, source>>

Update ==
    \E title \in Titles, body \in Bodies, state \in States, ch \in PatchChoices :
        \E o \in {update(pull, auth, remote, title, body, state, ch)} :
            Returns("update",
                    [NoArgs EXCEPT !.title = title, !.body = body, !.state = state], o)

Close ==
    \E ch \in PatchChoices :
        \E o \in {close(pull, auth, remote, ch)} : Returns("close", NoArgs, o)

Reopen ==
    \E ch \in PatchChoices :
        \E o \in {reopen(pull, auth, remote, ch)} : Returns("reopen", NoArgs, o)

Merge ==
    \E m \in Messages, ch \in PutChoices :
        \E o \in {merge(pull, auth, remote, m, ch)} :
            Returns("merge", [NoArgs EXCEPT !.commit_message = m], o)

IsMerged ==
    \E ch \in GetChoices :
        \E o \in {is_merged(pull, remote, ch)} : Returns("is_merged", NoArgs, o)

Next == Update \/ Close \/ Reopen \/ Merge \/ IsMerged

Spec == Init /\ [][Next]_vars

----------------------------------------------------------------------------
(* Iteration.  GitHubCore._iter gives a generator over a paged list: it     *)
(* fetches a page when the consumer asks for an element and none is         *)
(* buffered, and stops at the cap or at the last page (section 4.3).        *)

PageSize == 2

MaxItems == 5

MaxLimit == 4

Limits == -1..MaxLimit

CurrentEtag == "e1"

Etags == {None, Some("e0"), Some(CurrentEtag)}

Min(a, b) == IF a < b THEN a ELSE b

\* The remote list: page p of it, and whether a page follows
Page(items, p) == SubSeq(items, (p - 1) * PageSize + 1, Min(p * PageSize, Len(items)))

HasNext(items, p) == p * PageSize < Len(items)

\* GitHubCore._iter(count, url, cls, etag=etag): a generator; nothing is fetched
_iter(count, url, cls, etag) ==
    [status |-> "ready", count |-> count, url |-> url, cls |-> cls, etag |-> etag,
     next_page |-> 1, buffer |-> <<>>, yielded |-> <<>>, fetched |-> <<>>]

\* One element handed to the consumer, decoded as cls
Yield(it) ==
    [it EXCEPT !.status  = "running",
               !.yielded = Append(@, [cls |-> it.cls, json |-> Head(it.buffer)]),
               !.buffer  = Tail(@),
               !.count   = IF @ > 0 THEN @ - 1 ELSE @]

\* The consumer asks the generator for its next element
next(it, src, ch) ==
    IF it.count = 0 THEN [it EXCEPT !.status = "done"]
    ELSE IF it.buffer # <<>> THEN Yield(it)
    ELSE IF it.next_page = 0 THEN [it EXCEPT !.status = "done"]
    ELSE
    LET req  == [verb |-> "GET", url |-> it.url, page |-> it.next_page,
                 etag |-> IF it.fetched = <<>> THEN it.etag ELSE None]
        sent == [it EXCEPT !.fetched = Append(@, req)]
        page == Page(src.items, it.next_page)
        got  == [sent EXCEPT !.buffer = page,
                             !.next_page = IF HasNext(src.items, @) THEN @ + 1 ELSE 0]
    IN  IF ch = "error" THEN [sent EXCEPT !.status = "error"]
        ELSE IF req.etag = Some(src.etag) THEN [sent EXCEPT !.status = "not_modified"]
        ELSE IF page = <<>> THEN [got EXCEPT !.status = "done"]
        ELSE Yield(got)

\* iter_comments that does not pass its number on
iter_comments_unbounded(self, number, etag) ==
    _iter(-1, _build_url(<<"comments">>, self._api), "ReviewComment", etag)

\* iter_comments (lines 241-251)
iter_comments(self, number, etag) ==
    _iter(number, _build_url(<<"comments">>, self._api), "ReviewComment", etag)

\* iter_commits (lines 253-263)
iter_commits(self, number, etag) ==
    _iter(number, _build_url(<<"commits">>, self._api), "Commit", etag)

\* iter_files (lines 265-275)
iter_files(self, number, etag) ==
    _iter(number, _build_url(<<"files">>, self._api), "PullFile", etag)

\* iter_issue_comments (lines 277-287)
iter_issue_comments(self, number, etag) ==
    _iter(number, _build_url(<<>>, self.links.comments), "IssueComment", etag)

Sources == {[items |-> [i \in 1..t |-> 100 + i], etag |-> CurrentEtag] : t \in 0..MaxItems}

InitIter ==
    /\ auth \in BOOLEAN
    /\ remote \in {r \in InitRemotes : r.state = Some("open")}
    /\ pull = __init__(Blank, RemoteJson(remote, "ok")).self
    /\ last = [op |-> "init", args |-> NoArgs, reqs |-> <<>>, resp |-> NoResponse,
               result |-> "None"]
    /\ iter = NoIter
    /\ source \in Sources

Starts(op, number, etag, it) ==
    /\ iter' = it
    /\ last' = [op |-> op, args |-> [NoArgs EXCEPT !.number = number, !.etag = etag],
                reqs |-> <<>>, resp |-> NoResponse, result |-> "generator"]
    /\ UNCHANGED <<auth, pull, remote, source>>

IterComments ==
    \E number \in Limits, etag \in Etags :
        Starts("iter_comments", number, etag, iter_comments(pull, number, etag))

IterCommits ==
    \E number \in Limits, etag \in Etags :
        Starts("iter_commits", number, etag, iter_commits(pull, number, etag))

IterFiles ==
    \E number \in Limits, etag \in Etags :
        Starts("iter_files", number, etag, iter_files(pull, number, etag))

IterIssueComments ==
    \E number \in Limits, etag \in Etags :
        Starts("iter_issue_comments", number, etag, iter_issue_comments(pull, number, etag))

IterNext ==
    /\ iter.status \in {"ready", "running"}
    /\ \E ch \in {"ok", "error"} : iter' = next(iter, source, ch)
    /\ UNCHANGED <<auth, pull, remote, last, source>>

NextIter == IterComments \/ IterCommits \/ IterFiles \/ IterIssueComments \/ IterNext

SpecIter == InitIter /\ [][NextIter]_vars

----------------------------------------------------------------------------
(* Properties *)

Mutating == {"update", "close", "reopen", "merge"}

\* the one request of the last call, and the object its payload encodes
Req(l) == l.reqs[1]

Payload(l) == l.reqs[1].data[1][2]

\* C1: a mutating call without credentials ends in the authorization error,
\* issues no request and leaves the object (and the remote) as they were.
C1_Unauthenticated ==
    [][(last'.op \in Mutating /\ ~auth)
          => /\ last'.result = "GitHubError(401)"
             /\ last'.reqs = <<>>
             /\ pull' = pull
             /\ remote' = remote]_vars

C1_Witness ==
    /\ ~auth
    /\ last.op = "merge"
    /\ last.result = "GitHubError(401)"
    /\ remote.state = Some("open")

C3_UpdateNothing ==
    [][(/\ last'.op = "update"
        /\ auth
        /\ last'.args.title = None /\ last'.args.body = None /\ last'.args.state = None)
          => /\ last'.reqs = <<>>
             /\ last'.result = "False"
             /\ pull' = pull
             /\ remote' = remote]_vars

C3_Witness ==
    /\ auth
    /\ last.op = "update"
    /\ last.args.title = None /\ last.args.body = None /\ last.args.state = None
    /\ last.result = "False"

\* C4: update with at least one argument given sends exactly one PATCH to the
\* pull's API URL, and the payload holds exactly the given arguments, each with
\* its value; an argument that is None is not a key of the payload.
C4_UpdatePayload ==
    [][(/\ last'.op = "update"
        /\ auth
        /\ \E k \in {"title", "body", "state"} : last'.args[k] # None)
          => /\ Len(last'.reqs) = 1
             /\ Req(last').verb = "PATCH"
             /\ Req(last').url = pull._api
             /\ Req(last').url = remote.url
             /\ Req(last').data # None
             /\ Req(last').data[1][1] = "json"
             /\ DOMAIN Payload(last') =
                    {k \in {"title", "body", "state"} : last'.args[k] # None}
             /\ \A k \in DOMAIN Payload(last') : Payload(last')[k] = last'.args[k]]_vars

C4_Witness ==
    /\ auth
    /\ last.op = "update"
    /\ last.args.title = None /\ last.args.body = Some("") /\ last.args.state = None
    /\ Len(last.reqs) = 1
    /\ DOMAIN Payload(last) = {"body"}
    /\ Payload(last).body = Some("")

\* the answer is the pull as the remote now holds it, labelled or not
UpdatedResource(resp, r) ==
    /\ resp.status = 200
    /\ resp.json # None
    /\ \E d \in {"ok", "labels"} : resp.json[1] = RemoteJson(r, d)

\* what close and reopen are to send: the state, and the current title and body
\* (one that is None is not sent)
SendsState(l, self, state) ==
    /\ Len(l.reqs) = 1
    /\ Req(l).verb = "PATCH"
    /\ Req(l).url = self._api
    /\ DOMAIN Payload(l) \subseteq {"title", "body", "state"}
    /\ Get(Payload(l), "state") = Some(state)
    /\ Get(Payload(l), "title") = self.title
    /\ Get(Payload(l), "body") = self.body

\* C5: close on an open pull sends one partial update with state "closed" and
\* the current title and body, and when the server answers with the updated
\* resource the state becomes closed and close returns True; reopen on a closed
\* pull does the same with "open".
C5_CloseReopen ==
    [][/\ (last'.op = "close" /\ auth /\ pull.state = Some("open"))
            => /\ SendsState(last', pull, "closed")
               /\ UpdatedResource(last'.resp, remote')
                    => (pull'.state = Some("closed") /\ last'.result = "True")
       /\ (last'.op = "reopen" /\ auth /\ pull.state = Some("closed"))
            => /\ SendsState(last', pull, "open")
               /\ UpdatedResource(last'.resp, remote')
                    => (pull'.state = Some("open") /\ last'.result = "True")]_vars

\* C6: a merge answered with a body holding sha and merged stores the sha,
\* returns the merged flag and changes no other attribute.
C6_Merge ==
    [][(/\ last'.op = "merge"
        /\ auth
        /\ last'.resp.json # None
        /\ {"sha", "merged"} \subseteq DOMAIN last'.resp.json[1])
          => /\ pull' = [pull EXCEPT !.merge_commit_sha = last'.resp.json[1].sha]
             /\ last'.result = IF last'.resp.json[1].merged THEN "True" ELSE "False"]_vars

C6_Witness ==
    /\ auth
    /\ last.op = "merge"
    /\ last.args.commit_message = "release"
    /\ last.resp.json # None
    /\ last.resp.json[1] = [sha |-> Some(MergeSha), merged |-> FALSE]
    /\ last.result = "False"
    /\ pull.merge_commit_sha = Some(MergeSha)
    /\ pull.state = Some("open")
    /\ pull.merged_at = None

\* C7: an update or a merge answered without a body does not raise, reports
\* False and leaves every attribute as it was.
C7_EmptyBody ==
    [][(/\ last'.op \in {"update", "merge"}
        /\ Len(last'.reqs) = 1
        /\ last'.resp.status = 200
        /\ last'.resp.json = None)
          => /\ last'.result = "False"
             /\ pull' = pull]_vars

\* C8: in every state the links are those of the API URL: self is the URL,
\* review_comments the URL + "/comments", issue the URL with its "pulls" path
\* segment (and nothing else) replaced by "issues", comments issue + "/comments".
C8_Links ==
    /\ pull.links.self = pull._api
    /\ pull.links.review_comments = join(pull._api, "comments")
    /\ pull.links.issue = IssueUrl(pull._api)
    /\ pull.links.comments = join(IssueUrl(pull._api), "comments")

\* C10: update, close and reopen either replace every attribute from the
\* answer and return True, or leave every attribute as it was.
C10_AllOrNothing ==
    [][last'.op \in {"update", "close", "reopen"}
          => \/ pull' = pull
             \/ /\ last'.result = "True"
                /\ last'.resp.json # None
                /\ \A f \in Attributes : pull'[f] = InitValue(last'.resp.json[1], f)]_vars

IterOps == {"iter_comments", "iter_commits", "iter_files", "iter_issue_comments"}

ClassOf(op) ==
    CASE op = "iter_comments"       -> "ReviewComment"
      [] op = "iter_commits"        -> "Commit"
      [] op = "iter_files"          -> "PullFile"
      [] op = "iter_issue_comments" -> "IssueComment"

\* C9: an iter_* call with number = n >= 0 over a list of T items yields the
\* first min(n, T) items, in the server's order, decoded as the method's
\* class; its requests are for pages 1, 2, ... of the method's URL, and a page
\* is requested only once every element of the pages before it was yielded.
\* (Stated of a generator that no "not modified" answer or failed fetch has ended.)
C9_Limit ==
    (/\ last.op \in IterOps
     /\ last.args.number >= 0
     /\ iter.status \in {"ready", "running", "done"})
       => LET n == last.args.number
              T == Len(source.items)
              k == Len(iter.yielded)
              f == Len(iter.fetched)
          IN  /\ k <= Min(n, T)
              /\ iter.status = "done" => k = Min(n, T)
              /\ \A i \in 1..k :
                    iter.yielded[i] = [cls |-> ClassOf(last.op), json |-> source.items[i]]
              /\ \A j \in 1..f : iter.fetched[j].page = j /\ iter.fetched[j].url = iter.url
              /\ f <= IF k = 0 THEN (IF n = 0 THEN 0 ELSE 1)
                      ELSE (k + PageSize - 1) \div PageSize
              /\ f > 0 => (f - 1) * PageSize <= k

C9_Witness ==
    /\ last.op = "iter_files"
    /\ last.args.number = 3
    /\ Len(source.items) = 5
    /\ iter.status = "done"
    /\ Len(iter.yielded) = 3
    /\ Len(iter.fetched) = 2

====
